---- MODULE Spec2Model ----
(***************************************************************************)
(* The Interactive Portfolio Modeler of src/app.py (a Streamlit script).   *)
(*                                                                         *)
(* A Streamlit session is a sequence of script runs: every user            *)
(* interaction (site selectbox, page radio, Reset button, task selectbox,  *)
(* delay slider) re-executes the whole script top to bottom.  Each action  *)
(* below is one interaction followed by the complete script run it         *)
(* triggers; the state is the session state plus the values the last run   *)
(* left in the script's variables.                                         *)
(*                                                                         *)
(* DataFrames are mutable objects: the model keeps a heap of objects and   *)
(* the script's variables hold references into it, so that an aliasing     *)
(* (a missing .copy()) is something the checks can see.                    *)
(***************************************************************************)
EXTENDS Integers, Sequences, FiniteSets, TLC

\* ---------------------------------------------------------------- bounds
\* Largest number of rows of the baseline portfolio table.
MaxRows == 2

\* Largest number of items get_action_center_items() returns.
MaxItems == 2

\* st.slider("Delay (Weeks):", 0, 12, 0): the slider's upper end.
MaxDelay == 12

\* The slider positions the user is taken to try: both ends of the range,
\* the smallest delay and one in between.
DelayChoices == {0, 1, 5, MaxDelay}

\* ---------------------------------------------------------------- values
\* Python's None (selected_task on an empty working copy).
NoneVal == "None"

\* A missing Dependencies cell.
NoDep == "-"

\* impact_text = "" (no dependency alert); an alert is the pair of the two
\* task names its f-string embeds.
NoText == << >>

\* The reference held by a variable that is None or not bound in this run.
NoRef == 0

\* The sentinel option of the site selectbox.
Overall == "West Coast (Overall)"

\* The options of st.selectbox("Select Site View:", ...).
SiteOptions == <<Overall, "San Diego", "Seattle">>

\* The branches of the page dispatch: the Home Cockpit, the Interactive
\* Portfolio Modeler, and the remaining pages (none of which reads or writes
\* the portfolio table or st.session_state.edited_portfolio).
Home == "Home Cockpit"

Modeler == "Interactive Portfolio Modeler"

OtherPage == "Other"

Pages == {Home, Modeler, OtherPage}

\* ------------------------------------------------------------ the data
\* Task names and site tags of the generated portfolio rows.  Names are
\* non-empty strings; two rows may carry the same name.
TaskNames == {"A", "B"}

DataSites == {"San Diego", "Seattle"}

\* timedelta(weeks=w), in days.
Timedelta(weeks) == 7 * weeks

\* One row of the portfolio table at position i (1-based) of the baseline:
\* idx is the row's index label (a RangeIndex), Start <= Finish in days,
\* Weekly_Cost_k and Status differ from row to row.
PortfolioRow(i, task, site, dep) ==
    [idx |-> i - 1, Task |-> task, Site |-> site,
     Start |-> 10 * i, Finish |-> 10 * i + 7 * i,
     Weekly_Cost_k |-> 5 * i,
     Dependencies |-> dep,
     Status |-> IF i % 2 = 1 THEN "On Track" ELSE "At Risk"]

\* The Dependencies cells: none, or the task "A".  A dependency on a name
\* other than the selected one acts as none does, so with both names
\* selectable this covers depending and not depending on the selection.
DepChoices == {NoDep, "A"}

\* The choices left open for a row.
RowChoices == TaskNames \X DataSites \X DepChoices

\* The tables get_project_portfolio_data() may return: 0..MaxRows rows.
Baselines ==
    UNION { { [i \in 1..n |-> PortfolioRow(i, c[i][1], c[i][2], c[i][3])] :
                c \in [1..n -> RowChoices] } : n \in 0..MaxRows }

\* ------------------------------------------------------------ the heap
\* The smallest object id not in use.
FreshId(h) ==
    CHOOSE i \in 1..(Cardinality(DOMAIN h) + 1) :
        /\ i \notin DOMAIN h
        /\ \A j \in 1..(i - 1) : j \in DOMAIN h

\* The heap with a new object of value v, at FreshId(h).
Alloc(h, v) ==
    [i \in DOMAIN h \cup {FreshId(h)} |-> IF i \in DOMAIN h THEN h[i] ELSE v]

\* The heap with only the objects of the set keep.
Restrict(h, keep) == [i \in DOMAIN h \cap keep |-> h[i]]

\* DataFrame.copy(): a new object with the same rows.
DataFrameCopy(h, ref) == [heap |-> Alloc(h, h[ref]), ref |-> FreshId(h)]

\* The aliasing a missing .copy() gives: the same object.
DataFrameAlias(h, ref) == [heap |-> h, ref |-> ref]

\* ------------------------------------------------- the script's functions
\* A filter that keeps the rows of the other sites.
RowsOfOtherSites(rows, site) ==
    LET Keep(r) == r.Site # site IN SelectSeq(rows, Keep)

\* The rows of df[df['Site'] == site].
RowsOfSite(rows, site) == LET Keep(r) == r.Site = site IN SelectSeq(rows, Keep)

\* filter_df_by_site(df) under the current site_selection: a new DataFrame
\* object in either branch ('Site' is a column of the portfolio table).
filter_df_by_site(h, df, site) ==
    IF site # Overall
    THEN [heap |-> Alloc(h, RowsOfSite(h[df], site)), ref |-> FreshId(h)]
    ELSE DataFrameCopy(h, df)

\* A reset that stores the filtered table itself.
NewWorkingCopyAlias(h, portfolio_df) == DataFrameAlias(h, portfolio_df)

\* st.session_state.edited_portfolio = portfolio_df.copy()
NewWorkingCopy(h, portfolio_df) == DataFrameCopy(h, portfolio_df)

\* A simulation that works on the working copy itself.
NewGanttAlias(h, edited) == DataFrameAlias(h, edited)

\* gantt_df = st.session_state.edited_portfolio.copy()
NewGantt(h, edited) == DataFrameCopy(h, edited)

\* The options of the task selectbox: the column edited_portfolio['Task'].
TaskOptions(rows) == [i \in DOMAIN rows |-> rows[i].Task]

\* Controls that show no warning on an empty working copy.
SimulationControlsSilent(rows, sel_index, slider_value) ==
    IF rows # << >>
    THEN [selected_task |-> rows[sel_index].Task,
          delay_weeks   |-> slider_value,
          warning       |-> FALSE]
    ELSE [selected_task |-> NoneVal, delay_weeks |-> 0, warning |-> FALSE]

\* "Simulation Controls": with a non-empty working copy the selectbox
\* returns the option at its index and the slider its value; otherwise the
\* widgets are not rendered, a warning is shown and the variables are set
\* to None and 0.
SimulationControls(rows, sel_index, slider_value) ==
    IF rows # << >>
    THEN [selected_task |-> TaskOptions(rows)[sel_index],
          delay_weeks   |-> slider_value,
          warning       |-> FALSE]
    ELSE [selected_task |-> NoneVal, delay_weeks |-> 0, warning |-> TRUE]

\* Python truthiness of selected_task: None and "" are false.
Truthy(t) == t # NoneVal /\ t # ""

\* A guard that lets a zero delay through.
SimulationGuardAnyDelay(rows, selected_task, delay_weeks) ==
    delay_weeks >= 0 /\ Truthy(selected_task) /\ rows # << >>

\* The guard of the simulation block.
SimulationGuard(rows, selected_task, delay_weeks) ==
    delay_weeks > 0 /\ Truthy(selected_task) /\ rows # << >>

\* gantt_df[gantt_df['Task'] == selected_task]
TaskRowList(rows, selected_task) ==
    LET Keep(r) == r.Task = selected_task IN SelectSeq(rows, Keep)

\* A shift that also moves the rows depending on the delayed one.
ShiftFinishCascade(rows, task_idx, delay_weeks) ==
    [i \in DOMAIN rows |->
        IF \/ rows[i].idx = task_idx
           \/ \E j \in DOMAIN rows :
                 rows[j].idx = task_idx /\ rows[i].Dependencies = rows[j].Task
        THEN [rows[i] EXCEPT !.Finish = @ + Timedelta(delay_weeks)]
        ELSE rows[i]]

\* A shift that moves the Finish earlier.
ShiftFinishEarlier(rows, task_idx, delay_weeks) ==
    [i \in DOMAIN rows |->
        IF rows[i].idx = task_idx
        THEN [rows[i] EXCEPT !.Finish = @ - Timedelta(delay_weeks)]
        ELSE rows[i]]

\* gantt_df.loc[task_idx, 'Finish'] += timedelta(weeks=delay_weeks):
\* the Finish of the rows labelled task_idx moves, nothing else.
ShiftFinish(rows, task_idx, delay_weeks) ==
    [i \in DOMAIN rows |->
        IF rows[i].idx = task_idx
        THEN [rows[i] EXCEPT !.Finish = @ + Timedelta(delay_weeks)]
        ELSE rows[i]]

\* A cost charged per day of delay.
CostImpactPerDay(delay_weeks, task_row) ==
    Timedelta(delay_weeks) * task_row.Weekly_Cost_k

\* cost_impact = delay_weeks * task_row['Weekly_Cost_k']
CostImpact(delay_weeks, task_row) == delay_weeks * task_row.Weekly_Cost_k

\* gantt_df[gantt_df['Dependencies'] == selected_task]
DependencyImpacted(rows, selected_task) ==
    LET Keep(r) == r.Dependencies = selected_task IN SelectSeq(rows, Keep)

\* An alert that names the last dependent row.
ImpactTextLast(selected_task, dependency_impacted) ==
    IF dependency_impacted # << >>
    THEN <<selected_task, dependency_impacted[Len(dependency_impacted)].Task>>
    ELSE NoText

\* The dependency alert: the f-string names the delayed task and
\* dependency_impacted.iloc[0]['Task'].
ImpactText(selected_task, dependency_impacted) ==
    IF dependency_impacted # << >>
    THEN <<selected_task, dependency_impacted[1].Task>>
    ELSE NoText

\* A block that scans for dependents whether or not the name matched a row.
SimulateScanAlways(h, gantt, selected_task, delay_weeks) ==
    IF SimulationGuard(h[gantt], selected_task, delay_weeks)
    THEN LET task_row_list == TaskRowList(h[gantt], selected_task)
             found    == task_row_list # << >>
             shifted  == IF found
                         THEN ShiftFinish(h[gantt], task_row_list[1].idx, delay_weeks)
                         ELSE h[gantt]
         IN [heap        |-> [h EXCEPT ![gantt] = shifted],
             impact_text |-> ImpactText(selected_task,
                                DependencyImpacted(shifted, selected_task)),
             cost_impact |-> IF found THEN CostImpact(delay_weeks, task_row_list[1])
                                      ELSE 0,
             lookup      |-> TRUE]
    ELSE [heap |-> h, impact_text |-> NoText, cost_impact |-> 0,
          lookup |-> FALSE]

\* The simulation block, run on the object gantt: the heap after it, with
\* impact_text, cost_impact and whether the lookup by name was executed.
Simulate(h, gantt, selected_task, delay_weeks) ==
    IF SimulationGuard(h[gantt], selected_task, delay_weeks)
    THEN LET task_row_list == TaskRowList(h[gantt], selected_task) IN
         IF task_row_list # << >>
         THEN LET task_row == task_row_list[1]
                  task_idx == task_row.idx
                  shifted  == ShiftFinish(h[gantt], task_idx, delay_weeks)
              IN [heap        |-> [h EXCEPT ![gantt] = shifted],
                  impact_text |-> ImpactText(selected_task,
                                     DependencyImpacted(shifted, selected_task)),
                  cost_impact |-> CostImpact(delay_weeks, task_row),
                  lookup      |-> TRUE]
         ELSE [heap |-> h, impact_text |-> NoText, cost_impact |-> 0,
               lookup |-> TRUE]
    ELSE [heap |-> h, impact_text |-> NoText, cost_impact |-> 0,
          lookup |-> FALSE]

\* The two outcomes of the impact display, and none off the Modeler page.
Alert == "Dependency Alert"

NoConflict == "No direct dependency conflicts detected."

NoDisplay == "-"

\* A display that shows the alert when there is no text.
ImpactDisplayInverted(impact_text) ==
    IF impact_text # NoText THEN NoConflict ELSE Alert

\* if impact_text: st.error(impact_text) else: st.success(...)
ImpactDisplay(impact_text) ==
    IF impact_text # NoText THEN Alert ELSE NoConflict

\* --------------------------------------------------------- Action Center
Pending == "Pending"

Approved == "Approved"

Rejected == "Rejected"

\* st.session_state.action_items = None, written as a one-entry list so
\* that it compares with the lists of items.
NoItems == <<[id |-> 0, status |-> NoneVal]>>

\* get_action_center_items(...): n items, all awaiting a decision.
get_action_center_items(n) == [i \in 1..n |-> [id |-> i, status |-> Pending]]

\* Items fetched anew on every run.
EnsureItemsAlways(items, n) == get_action_center_items(n)

\* if st.session_state.action_items is None: ... = get_action_center_items(...)
EnsureItems(items, n) ==
    IF items = NoItems THEN get_action_center_items(n) ELSE items

\* pending_items: the positions of the items whose status is 'Pending'.
PendingItems(items) == {i \in DOMAIN items : items[i].status = Pending}

\* st.header(f"Action Center ({len(pending_items)})")
PendingCount(items) == Cardinality(PendingItems(items))

\* A click that sets the status of every pending item.
SetStatusOfAll(items, i, status) ==
    [j \in DOMAIN items |->
        IF items[j].status = Pending THEN [items[j] EXCEPT !.status = status]
        ELSE items[j]]

\* item['status'] = 'Approved' / 'Rejected', on the item of the button.
SetStatus(items, i, status) == [items EXCEPT ![i].status = status]

\* A header left as the interrupted run drew it (no st.rerun()).
HeaderWithoutRerun(before, after) == PendingCount(before)

\* st.rerun() after the status is set: the header the user is left with is
\* drawn by a run that reads the updated list.
HeaderAfterClick(before, after) == PendingCount(after)

\* ------------------------------------------------------------- the state
VARIABLES
    action_items,      \* st.session_state.action_items
    pending_header,    \* the count in the "Action Center (n)" header
    display,           \* what the impact display of the last run shows
    cache,             \* the portfolio table held by @st.cache_data
    heap,              \* the DataFrame objects alive after the last run
    data,              \* data["portfolio_df"] of the last run (a reference)
    portfolio_df,      \* filter_df_by_site(data["portfolio_df"]) (a reference)
    edited_portfolio,  \* st.session_state.edited_portfolio (NoRef when None)
    gantt_df,          \* gantt_df of the last run (NoRef off the Modeler page)
    site_selection,    \* the site selectbox
    page,              \* the navigation radio
    reset_button,      \* whether the last run rendered 'Reset Simulation'
    widgets,           \* whether the last run rendered the task selectbox and slider
    sel_index,         \* the task selectbox's position (1-based; 0 when not rendered)
    slider,            \* the slider's value (0 when not rendered)
    selected_task,     \* the script's variables after the last run
    delay_weeks,
    impact_text,
    cost_impact,
    warning,           \* "No portfolio data for selected site." was shown
    lookup             \* the last run executed the lookup by task name

vars == <<action_items, pending_header, display, cache, heap, data, portfolio_df, edited_portfolio, gantt_df,
          site_selection, page, reset_button, widgets, sel_index, slider,
          selected_task, delay_weeks, impact_text, cost_impact, warning, lookup>>

\* The rows of the object a reference names.
Rows(ref) == heap[ref]

\* The options the task selectbox had on the last run.
ShownOptions == IF widgets THEN TaskOptions(Rows(edited_portfolio)) ELSE << >>

\* data = load_all_data(): @st.cache_data hands every run its own copy of
\* the cached table.
load_all_data(h, cached) == [heap |-> Alloc(h, cached), ref |-> FreshId(h)]

\* A working copy made anew on every run.
NeedsWorkingCopyAlways(edited, click) == TRUE

\* if st.session_state.edited_portfolio is None or st.button('Reset Simulation')
NeedsWorkingCopy(edited, click) == edited = NoRef \/ click

\* The Modeler page, from the filtered table to the impact analysis.
\*   edited: the working copy before the run; click: Reset was pressed;
\*   prev_options: the task options of the last run (<< >>: no widget state);
\*   idx_in, slider_in: the widgets' state coming into the run.
ModelerPage(h, d, site, edited, click, prev_options, idx_in, slider_in) ==
    LET f       == filter_df_by_site(h, d, site)
        create  == NeedsWorkingCopy(edited, click)
        w       == IF create THEN NewWorkingCopy(f.heap, f.ref)
                             ELSE [heap |-> f.heap, ref |-> edited]
        rows    == w.heap[w.ref]
        shown   == rows # << >>
        \* a widget keeps its state only while it is rendered unchanged
        kept    == prev_options # << >> /\ TaskOptions(rows) = prev_options
        index   == IF ~shown THEN 0 ELSE IF kept THEN idx_in ELSE 1
        slide   == IF shown /\ prev_options # << >> THEN slider_in ELSE 0
        c       == SimulationControls(rows, index, slide)
        g       == NewGantt(w.heap, w.ref)
        sim     == Simulate(g.heap, g.ref, c.selected_task, c.delay_weeks)
    IN  [heap             |-> Restrict(sim.heap, {d, f.ref, w.ref, g.ref}),
         data             |-> d,
         portfolio_df     |-> f.ref,
         edited_portfolio |-> w.ref,
         gantt_df         |-> g.ref,
         reset_button     |-> edited # NoRef,
         widgets          |-> shown,
         sel_index        |-> index,
         slider           |-> slide,
         selected_task    |-> c.selected_task,
         delay_weeks      |-> c.delay_weeks,
         impact_text      |-> sim.impact_text,
         cost_impact      |-> sim.cost_impact,
         warning          |-> c.warning,
         lookup           |-> sim.lookup,
         display          |-> ImpactDisplay(sim.impact_text)]

\* The script's variables on a page other than the Modeler.
OffModeler(h, d, pdf, edited) ==
    [heap |-> h, data |-> d, portfolio_df |-> pdf, edited_portfolio |-> edited,
     gantt_df |-> NoRef, reset_button |-> FALSE, widgets |-> FALSE,
     sel_index |-> 0, slider |-> 0, selected_task |-> NoneVal,
     delay_weeks |-> 0, impact_text |-> NoText, cost_impact |-> 0,
     warning |-> FALSE, lookup |-> FALSE, display |-> NoDisplay]

\* One run of the script: the objects of the last run's variables are gone,
\* the working copy of the session state stays.
RunScript(cached, h, edited, site, pg, click, prev_options, idx_in, slider_in) ==
    LET h0 == Restrict(h, {edited})
        l  == load_all_data(h0, cached)
    IN  IF pg = Modeler
        THEN ModelerPage(l.heap, l.ref, site, edited, click, prev_options,
                         idx_in, slider_in)
        ELSE IF pg = Home
        THEN LET f == filter_df_by_site(l.heap, l.ref, site)
             IN  OffModeler(f.heap, l.ref, f.ref, edited)
        ELSE OffModeler(l.heap, l.ref, NoRef, edited)

\* The state a run leaves behind.
Becomes(r, site, pg) ==
    /\ heap' = r.heap
    /\ data' = r.data
    /\ portfolio_df' = r.portfolio_df
    /\ edited_portfolio' = r.edited_portfolio
    /\ gantt_df' = r.gantt_df
    /\ site_selection' = site
    /\ page' = pg
    /\ reset_button' = r.reset_button
    /\ widgets' = r.widgets
    /\ sel_index' = r.sel_index
    /\ slider' = r.slider
    /\ selected_task' = r.selected_task
    /\ delay_weeks' = r.delay_weeks
    /\ impact_text' = r.impact_text
    /\ cost_impact' = r.cost_impact
    /\ warning' = r.warning
    /\ lookup' = r.lookup
    /\ display' = r.display
    /\ UNCHANGED cache

\* The page part of the run an interaction triggers.
PageRun(site, pg, click, idx_in, slider_in) ==
    \E r \in {RunScript(cache, heap, edited_portfolio, site, pg, click,
                      ShownOptions, idx_in, slider_in)} : Becomes(r, site, pg)

\* The sidebar part of a run: the items are fetched if there are none, and
\* the header counts the pending ones.
SidebarRun ==
    /\ action_items' = EnsureItems(action_items, Len(action_items))
    /\ pending_header' = PendingCount(action_items')

\* The rerun an interaction with the site, page, reset, task or delay widget
\* triggers.
Rerun(site, pg, click, idx_in, slider_in) ==
    /\ SidebarRun
    /\ PageRun(site, pg, click, idx_in, slider_in)

\* The first run of a session: action_items and edited_portfolio are None,
\* the site selectbox and the page radio show their first options.
SessionStart(tables, counts) ==
    /\ cache \in tables
    /\ \E n \in counts : action_items = EnsureItems(NoItems, n)
    /\ pending_header = PendingCount(action_items)
    /\ \E r \in {RunScript(cache, << >>, NoRef, Overall, Home, FALSE, << >>, 0, 0)} :
           /\ heap = r.heap
           /\ data = r.data
           /\ portfolio_df = r.portfolio_df
           /\ edited_portfolio = r.edited_portfolio
           /\ gantt_df = r.gantt_df
           /\ site_selection = Overall
           /\ page = Home
           /\ reset_button = r.reset_button
           /\ widgets = r.widgets
           /\ sel_index = r.sel_index
           /\ slider = r.slider
           /\ selected_task = r.selected_task
           /\ delay_weeks = r.delay_weeks
           /\ impact_text = r.impact_text
           /\ cost_impact = r.cost_impact
           /\ warning = r.warning
           /\ lookup = r.lookup
           /\ display = r.display

\* A session over any portfolio table, with MaxItems action items.
Init == SessionStart(Baselines, {MaxItems})


\* ----------------------------------------------------------- the actions
\* The user picks another site in the sidebar.
SelectSite ==
    \E i \in DOMAIN SiteOptions :
        /\ SiteOptions[i] # site_selection
        /\ Rerun(SiteOptions[i], page, FALSE, sel_index, slider)

\* The user picks another page in the sidebar.
Navigate ==
    \E p \in Pages :
        /\ p # page
        /\ Rerun(site_selection, p, FALSE, sel_index, slider)

\* The user presses 'Reset Simulation'.
ResetSimulation ==
    /\ page = Modeler
    /\ reset_button
    /\ Rerun(site_selection, page, TRUE, sel_index, slider)

\* The user picks another option of "Select Project to Delay:".
SelectTask ==
    /\ page = Modeler
    /\ widgets
    /\ \E i \in DOMAIN ShownOptions :
        /\ i # sel_index
        /\ Rerun(site_selection, page, FALSE, i, slider)

\* The user moves the "Delay (Weeks):" slider.
MoveSlider ==
    /\ page = Modeler
    /\ widgets
    /\ \E d \in DelayChoices :
        /\ d # slider
        /\ Rerun(site_selection, page, FALSE, sel_index, d)

Next ==
    \/ SelectSite
    \/ Navigate
    \/ ResetSimulation
    \/ SelectTask
    \/ MoveSlider

Spec == Init /\ [][Next]_vars

\* ------------------------------------------- the Action Center's buttons
\* A press of the Approve or Reject button of item i, which is rendered
\* while the item is pending: the handler sets the item's status and calls
\* st.rerun(), which abandons the run before the page is drawn (the widgets
\* keep their state) and runs the script again.
ClickItem(i, status) ==
    /\ i \in PendingItems(action_items)
    /\ \E after \in {SetStatus(EnsureItems(action_items, Len(action_items)),
                               i, status)} :
           /\ action_items' = EnsureItems(after, Len(after))
           /\ pending_header' = HeaderAfterClick(action_items, action_items')
    /\ PageRun(site_selection, page, FALSE, sel_index, slider)

Approve == \E i \in DOMAIN action_items : ClickItem(i, Approved)

Reject == \E i \in DOMAIN action_items : ClickItem(i, Rejected)

\* The portfolio tables of the sessions in which the Action Center is
\* exercised: the table plays no part in it, so a few tables (rows of one
\* name and site, without dependencies) stand for all.
CenterTables ==
    {b \in Baselines : \A i \in DOMAIN b :
        b[i].Task = "A" /\ b[i].Site = "San Diego" /\ b[i].Dependencies = NoDep}

\* Sessions with 0..MaxItems action items and every interaction.
CenterInit == SessionStart(CenterTables, 0..MaxItems)

CenterNext ==
    \/ Next
    \/ Approve
    \/ Reject

CenterSpec == CenterInit /\ [][CenterNext]_vars

\* ---------------------------------------- the simulation block on its own
\* The block from gantt_df = ...copy() to the alert, as a function of the
\* working copy, selected_task and delay_weeks, with the inputs drawn from
\* every table, every name (or None) and every slider value: this reaches the
\* inputs the task selectbox never produces (a name that matches no row).
SimInit ==
    /\ cache \in Baselines
    /\ heap = [i \in {1} |-> cache]
    /\ data = NoRef
    /\ portfolio_df = NoRef
    /\ edited_portfolio = 1
    /\ gantt_df = NoRef
    /\ site_selection = Overall
    /\ page = Modeler
    /\ reset_button = FALSE
    /\ widgets = FALSE
    /\ sel_index = 0
    /\ slider = 0
    /\ selected_task \in TaskNames \cup {NoneVal}
    /\ delay_weeks \in 0..MaxDelay
    /\ impact_text = NoText
    /\ cost_impact = 0
    /\ warning = FALSE
    /\ lookup = FALSE
    /\ display = NoDisplay
    /\ action_items = get_action_center_items(MaxItems)
    /\ pending_header = PendingCount(action_items)

SimulationBlock ==
    /\ gantt_df = NoRef
    /\ \E g \in {NewGantt(heap, edited_portfolio)} :
       \E sim \in {Simulate(g.heap, g.ref, selected_task, delay_weeks)} :
           /\ heap' = sim.heap
           /\ gantt_df' = g.ref
           /\ impact_text' = sim.impact_text
           /\ cost_impact' = sim.cost_impact
           /\ lookup' = sim.lookup
           /\ display' = ImpactDisplay(sim.impact_text)
    /\ UNCHANGED <<action_items, pending_header, cache, data, portfolio_df, edited_portfolio, site_selection,
                   page, reset_button, widgets, sel_index, slider,
                   selected_task, delay_weeks, warning>>

SimSpec == SimInit /\ [][SimulationBlock]_vars

\* --------------------------------------------------------- the properties
\* The simulation block has run: gantt_df is bound.
Simulated == gantt_df # NoRef

\* The working copy and the collection the simulation produced.
WorkingCopy == Rows(edited_portfolio)

Gantt == Rows(gantt_df)

\* The positions of the working copy's rows named t, and of those that
\* declare t as their dependency.
Matching(t) == {i \in DOMAIN WorkingCopy : WorkingCopy[i].Task = t}

Dependents(t) == {i \in DOMAIN WorkingCopy : WorkingCopy[i].Dependencies = t}

\* The smallest member of a non-empty set of positions.
First(S) == CHOOSE i \in S : \A j \in S : i <= j

\* A delay was asked for and the selected name matches a row.
Delayed == Simulated /\ delay_weeks \in 1..MaxDelay /\ Matching(selected_task) # {}

\* C1: single-field mutation.  When the selected task names exactly one row
\* and the delay is 1..12 weeks, the simulated collection has the working
\* copy's rows in the same order and differs from it in one cell only, the
\* Finish of the selected row (which does differ); every other field of that
\* row and every other row, dependents included, is the same.
C1_SingleFieldMutation ==
    (Delayed /\ Cardinality(Matching(selected_task)) = 1) =>
        /\ Len(Gantt) = Len(WorkingCopy)
        /\ \A i \in DOMAIN WorkingCopy :
            IF WorkingCopy[i].Task = selected_task
            THEN /\ Gantt[i].Finish # WorkingCopy[i].Finish
                 /\ [Gantt[i] EXCEPT !.Finish = WorkingCopy[i].Finish] = WorkingCopy[i]
            ELSE Gantt[i] = WorkingCopy[i]

\* A delayed, uniquely named task with a dependent row beside it.
C1_Witness ==
    /\ page = Modeler
    /\ Delayed
    /\ Cardinality(Matching(selected_task)) = 1
    /\ Dependents(selected_task) \ Matching(selected_task) # {}
    /\ impact_text # NoText

\* C2: cost linearity.  With a delay above 0 and a selected name that
\* matches a row, cost_impact is delay_weeks times the Weekly_Cost_k the
\* (first) matching row has in the working copy; in every other case it is 0.
C2_CostLinearity ==
    Simulated =>
        cost_impact =
            IF delay_weeks > 0 /\ Matching(selected_task) # {}
            THEN delay_weeks * WorkingCopy[First(Matching(selected_task))].Weekly_Cost_k
            ELSE 0

\* A delayed task that is not the first row of the working copy.
C2_Witness ==
    /\ page = Modeler
    /\ Delayed
    /\ First(Matching(selected_task)) > 1
    /\ cost_impact = delay_weeks * WorkingCopy[2].Weekly_Cost_k
    /\ cost_impact > 0

\* C3: identity law.  With delay_weeks = 0 and a task selected, the
\* simulated collection equals the working copy in every row and field,
\* cost_impact is 0 and there is no alert, dependents or not.
C3_IdentityLaw ==
    (Simulated /\ delay_weeks = 0 /\ selected_task # NoneVal) =>
        /\ Gantt = WorkingCopy
        /\ cost_impact = 0
        /\ impact_text = NoText

\* A zero delay on a task another row depends on.
C3_Witness ==
    /\ page = Modeler
    /\ Simulated
    /\ delay_weeks = 0
    /\ Matching(selected_task) # {}
    /\ Dependents(selected_task) # {}

C4_WitnessNegative ==
    /\ page = Modeler
    /\ Delayed
    /\ Dependents(selected_task) = {}
    /\ Len(WorkingCopy) > 1
    /\ impact_text = NoText
    /\ cost_impact > 0

\* C5: an ambiguous match is a no-op.  When more than one row of the working
\* copy carries the selected name, a delay above 0 changes no Finish, costs
\* nothing and shows no alert.
C5_AmbiguousNoOp ==
    (Delayed /\ Cardinality(Matching(selected_task)) > 1) =>
        /\ Gantt = WorkingCopy
        /\ cost_impact = 0
        /\ impact_text = NoText

\* C6: no match.  When the selected name matches no row, a delay of 1..12
\* weeks leaves every row and field as in the working copy, costs nothing and
\* shows no alert, even if a row declares that name as its dependency; the
\* block completes (the lookup ran and found nothing).
C6_NoMatch ==
    (/\ Simulated
     /\ selected_task # NoneVal
     /\ delay_weeks \in 1..MaxDelay
     /\ Matching(selected_task) = {}) =>
        /\ Gantt = WorkingCopy
        /\ cost_impact = 0
        /\ impact_text = NoText
        /\ WorkingCopy # << >> => lookup

\* An unmatched name that a row of the working copy depends on.
C6_Witness ==
    /\ Simulated
    /\ selected_task # NoneVal
    /\ delay_weeks \in 1..MaxDelay
    /\ Matching(selected_task) = {}
    /\ Dependents(selected_task) # {}
    /\ lookup

\* C7: an empty working copy short-circuits.  Nothing is selectable
\* (selected_task is None, delay_weeks is 0, the widgets are not rendered),
\* no lookup by name runs, the simulated collection is empty, cost_impact is
\* 0, there is no alert and the 'no portfolio data' warning is shown.
C7_EmptyShortCircuit ==
    (page = Modeler /\ WorkingCopy = << >>) =>
        /\ ~widgets
        /\ selected_task = NoneVal
        /\ delay_weeks = 0
        /\ ~lookup
        /\ Gantt = << >>
        /\ cost_impact = 0
        /\ impact_text = NoText
        /\ warning

\* The site filter emptied the working copy of a non-empty baseline.
C7_Witness ==
    /\ page = Modeler
    /\ WorkingCopy = << >>
    /\ cache # << >>
    /\ Gantt = << >>
    /\ warning

\* The k-th smallest member of a set of positions.
Kth(P, k) == CHOOSE i \in P : Cardinality({j \in P : j < i}) = k - 1

\* The rows of a table at the positions P, in the table's order.
RowsAt(rows, P) == [k \in 1..Cardinality(P) |-> rows[Kth(P, k)]]

\* What a load under site s is to return from the baseline: all rows for
\* the sentinel, else the rows tagged s, in their order.
Loaded(s) ==
    IF s = Overall
    THEN cache
    ELSE RowsAt(cache, {i \in DOMAIN cache : cache[i].Site = s})

\* The site options as a set.
SiteValues == {SiteOptions[i] : i \in DOMAIN SiteOptions}

\* The index labels of a table's rows.
Labels(rows) == {rows[i].idx : i \in DOMAIN rows}

\* The objects the last run left: the baseline table the script reads equals
\* the cached one, the loaded table equals the baseline filtered by the
\* selected site, the working copy equals the baseline filtered by some
\* site, and the four are different objects.
Isolated ==
    /\ Rows(data) = cache
    /\ portfolio_df # NoRef =>
          /\ portfolio_df # data
          /\ Rows(portfolio_df) = Loaded(site_selection)
    /\ edited_portfolio # NoRef =>
          /\ edited_portfolio \notin {data, portfolio_df, gantt_df}
          /\ \E s \in SiteValues : WorkingCopy = Loaded(s)
    /\ gantt_df # NoRef => gantt_df \notin {data, portfolio_df}

\* A run that replaces the working copy (the first load, a reset) stores an
\* object that is neither the one it replaces nor one of this run's tables,
\* equal to the baseline filtered by the site selected in that run.
FreshWorkingCopy ==
    edited_portfolio' # edited_portfolio =>
        /\ edited_portfolio' \notin {NoRef, data', portfolio_df', gantt_df'}
        /\ WorkingCopy' = Loaded(site_selection)'
        /\ cache' = cache

\* C8: baseline isolation and reset.  After any sequence of site changes,
\* resets, task selections and delay simulations the baseline equals its
\* initial value, and each load and each reset yields a copy equal to the
\* (filtered) baseline that is a different object from the baseline and
\* from every copy made before, so that the mutation of one copy (the
\* simulated collection) changes neither the baseline nor another copy.
C8_BaselineIsolation == []Isolated /\ [][FreshWorkingCopy]_vars

\* After a reset under a site filter, a simulation has changed the simulated
\* collection.
C8_Witness ==
    /\ page = Modeler
    /\ reset_button
    /\ site_selection # Overall
    /\ Delayed
    /\ Gantt # WorkingCopy
    /\ WorkingCopy = Rows(portfolio_df)
    /\ WorkingCopy # cache

Original(r) == cache[CHOOSE i \in DOMAIN cache : cache[i].idx = r.idx]

RenderedFromCurrentInputs ==
    page = Modeler =>
        LET hit == IF delay_weeks > 0 /\ Matching(selected_task) # {}
                   THEN {First(Matching(selected_task))} ELSE {}
        IN  /\ Len(Gantt) = Len(WorkingCopy)
            /\ \A i \in DOMAIN Gantt :
                  Gantt[i] = [Original(WorkingCopy[i]) EXCEPT !.Finish =
                                 @ + (IF i \in hit THEN Timedelta(delay_weeks) ELSE 0)]
            /\ cost_impact =
                  IF hit = {} THEN 0
                  ELSE delay_weeks * Original(WorkingCopy[First(hit)]).Weekly_Cost_k

\* A reset leaves a working copy equal to the baseline as loaded under the
\* selected site.
ResetRestoresBaseline ==
    ResetSimulation =>
        /\ WorkingCopy' = Loaded(site_selection)'
        /\ site_selection' = site_selection

\* C11: statelessness between calls.  Over any sequence of task and delay
\* choices without a reset, each run's result depends only on the working
\* copy, the selected task and the current delay: the selected task renders
\* at its original Finish plus the current delay (earlier delays do not
\* accumulate), every other task at its original Finish; and a reset at any
\* point returns the working copy to the (site-filtered) baseline.
C11_Stateless == []RenderedFromCurrentInputs /\ [][ResetRestoresBaseline]_vars

\* A later run of a session (the Reset button is there) in which a one-week
\* delay is rendered: the slider came to 1 from another position.
C11_Witness ==
    /\ page = Modeler
    /\ reset_button
    /\ Delayed
    /\ delay_weeks = 1
    /\ Gantt[First(Matching(selected_task))].Finish
          = Original(WorkingCopy[First(Matching(selected_task))]).Finish + 7

\* C13: the schedule invariant is preserved.  If every row of the working
\* copy has Start <= Finish, so has every row of the simulated collection,
\* for every selected task and every delay of 0..12 weeks; no Finish of the
\* simulated collection is earlier than in the working copy.
C13_ScheduleInvariant ==
    (Simulated /\ \A i \in DOMAIN WorkingCopy :
                     WorkingCopy[i].Start <= WorkingCopy[i].Finish) =>
        /\ \A i \in DOMAIN Gantt : Gantt[i].Start <= Gantt[i].Finish
        /\ \A i \in DOMAIN Gantt : Gantt[i].Finish >= WorkingCopy[i].Finish

\* The largest delay on a matched task: its Finish moved 12 weeks later.
C13_Witness ==
    /\ page = Modeler
    /\ Delayed
    /\ delay_weeks = MaxDelay
    /\ \E i \in DOMAIN Gantt :
          /\ Gantt[i].Finish = WorkingCopy[i].Finish + 7 * MaxDelay
          /\ WorkingCopy[i].Start <= WorkingCopy[i].Finish

\* A step other than a press of 'Reset Simulation' leaves an existing working
\* copy alone: the same object with the same rows.  While there is none, it
\* is made exactly by a run of the Modeler page.
WorkingCopyKept ==
    /\ (edited_portfolio # NoRef /\ ~ResetSimulation) =>
          /\ edited_portfolio' = edited_portfolio
          /\ WorkingCopy' = WorkingCopy
    /\ edited_portfolio = NoRef => (edited_portfolio' # NoRef <=> page' = Modeler)
    /\ (page' = Modeler /\ widgets') => ShownOptions' = TaskOptions(WorkingCopy')

\* C14: the working copy is re-created only on first use or reset.
\* st.session_state.edited_portfolio is assigned only when it is None (on the
\* Modeler page) or when 'Reset Simulation' is pressed; a site change, a page
\* change, a task selection or a slider move leaves it unchanged, so after a
\* site change without a reset the working copy and the selectable task
\* names are still those of the site selected when it was made.
C14_RecreatedOnlyOnReset == [][WorkingCopyKept]_vars

\* After a site change without a reset the Modeler shows a working copy that
\* is not the table loaded for the selected site.
C14_Witness ==
    /\ page = Modeler
    /\ widgets
    /\ WorkingCopy # Loaded(site_selection)
    /\ Rows(portfolio_df) = Loaded(site_selection)
    /\ ShownOptions = TaskOptions(WorkingCopy)

\* C12: a well-defined result on every render.  On every run of the Modeler
\* page, whatever the working copy (empty included), the selected task and
\* the delay, the impact display shows exactly one of the dependency alert
\* and the 'no direct dependency conflicts' message, and the alert exactly
\* when the delay is above 0, the selected task matches a row and some row
\* depends on it.
C12_WellDefinedResult ==
    page = Modeler =>
        /\ display \in {Alert, NoConflict}
        /\ display = Alert <=>
              /\ delay_weeks > 0
              /\ Matching(selected_task) # {}
              /\ Dependents(selected_task) # {}
        /\ display = Alert <=> impact_text # NoText

\* The alert is shown for a delayed task with a dependent.
C12_Witness ==
    /\ page = Modeler
    /\ Delayed
    /\ Dependents(selected_task) # {}
    /\ display = Alert

\* The empty working copy reaches the display with the neutral message.
C12_WitnessEmpty ==
    /\ page = Modeler
    /\ WorkingCopy = << >>
    /\ display = NoConflict

\* The header counts the pending items.
HeaderCountsPending ==
    pending_header = Cardinality({i \in DOMAIN action_items :
                                     action_items[i].status = Pending})

\* What a step does to the items: the list keeps its length and its ids; a
\* status changes only on a pending item, by a press of that item's Approve
\* button (to Approved) or Reject button (to Rejected), and then no other
\* item changes; a press does set the status; the header's count does not
\* grow.
ItemStep ==
    /\ Len(action_items') = Len(action_items)
    /\ \A i \in DOMAIN action_items :
          /\ action_items'[i].id = action_items[i].id
          /\ action_items'[i].status # action_items[i].status =>
                /\ action_items[i].status = Pending
                /\ \/ ClickItem(i, Approved) /\ action_items'[i].status = Approved
                   \/ ClickItem(i, Rejected) /\ action_items'[i].status = Rejected
                /\ \A j \in DOMAIN action_items \ {i} :
                      action_items'[j] = action_items[j]
          /\ ClickItem(i, Approved) => action_items'[i].status = Approved
          /\ ClickItem(i, Rejected) => action_items'[i].status = Rejected
    /\ pending_header' <= pending_header

\* C15: the Action Center status machine.  An item's status changes only by
\* an Approve or Reject press on that item while it is Pending, to Approved
\* or Rejected; these two are terminal; a press changes that one item only;
\* the header's count is the number of pending items and never grows; the
\* list is made once per session and not made again.
C15_ActionCenter == []HeaderCountsPending /\ [][ItemStep]_vars

\* One item approved, another rejected, and the header at 0, on the Modeler
\* page after a simulation.
C15_Witness ==
    /\ \E i, j \in DOMAIN action_items :
          /\ action_items[i].status = Approved
          /\ action_items[j].status = Rejected
    /\ pending_header = 0
    /\ page = Modeler
    /\ Delayed

====
